---- MODULE Spec2Model ----
(***************************************************************************)
(* A model of the Jamments front-end client (src/src/index.js).            *)
(*                                                                         *)
(* JavaScript objects are heap cells: a comment parsed from a response is  *)
(* the cell <<call, position>>, commentsHash maps an id to such a cell,    *)
(* and children lists hold cell references, so that "objects are passed by *)
(* ref" (index.js:135) is visible in the model.  Each promise callback is  *)
(* one atomic action, as the JavaScript event loop runs it.                *)
(***************************************************************************)
EXTENDS Integers, Sequences, FiniteSets, TLC

(***************************************************************************)
(* Bounds of the model.                                                    *)
(***************************************************************************)
MaxCalls == 2       \* calls issued on the client
MaxLen == 2         \* comments in one fetched array
MaxId == 2          \* comment ids are 1..MaxId
MaxTime == 2        \* submitted_at values are 1..MaxTime
MaxSlugLen == 2     \* characters of a generated slug

Null == 0           \* JSON null in parent_id (falsy, like 0)
Ids == 1..MaxId
Times == 1..MaxTime

VARIABLES
    client,         \* the Jamments instance: NoClient or [endpoint, cachedFilesURI]
    tried,          \* the argument of the latest constructor call
    thrown,         \* what that constructor call threw ("none" or "TypeError")
    commentsHash,   \* this.commentsHash: comment id -> heap cell
    heap,           \* the comment objects: cell -> [id, parent_id, submitted_at, children]
    calls,          \* the promises returned by the client's methods, in order of issue
    order,          \* the getComments calls whose then-callback has run, in that order
    last            \* what the latest then-callback of getComments worked on

vars == <<client, tried, thrown, commentsHash, heap, calls, order, last>>

EmptyHash == [id \in {} |-> <<0, 0>>]
EmptyHeap == [cell \in {} |-> 0]
NoClient == [endpoint |-> "", cachedFilesURI |-> ""]
NoLast == [call |-> 0, input |-> <<>>, sorted |-> <<>>, roots |-> <<>>, threw |-> FALSE]

(***************************************************************************)
(* Strings that are taken apart are sequences of one-character strings.    *)
(***************************************************************************)
RECURSIVE Join(_)
Join(s) == IF s = <<>> THEN "" ELSE s[1] \o Join(Tail(s))

RECURSIVE SeqsUpTo(_, _)
SeqsUpTo(S, n) ==
    IF n = 0 THEN {<<>>}
    ELSE LET shorter == SeqsUpTo(S, n - 1)
         IN  shorter \cup {Append(s, x) : s \in {t \in shorter : Len(t) = n - 1}, x \in S}

(***************************************************************************)
(* String.prototype.toLowerCase, on the characters the model uses.         *)
(***************************************************************************)
toLowerCase(c) ==
    CASE c = "A" -> "a"
      [] c = "H" -> "h"
      [] c = "W" -> "w"
      [] c = "M" -> "m"
      [] c = "P" -> "p"
      [] c = "S" -> "s"
      [] c = "C" -> "c"
      [] OTHER -> c

\* replace(/^\/|\/$/g, ''): one slash at the start and one at the end go
StripEdgeSlashes(s) ==
    LET a == IF s # <<>> /\ s[1] = "/" THEN Tail(s) ELSE s
    IN  IF a # <<>> /\ a[Len(a)] = "/" THEN SubSeq(a, 1, Len(a) - 1) ELSE a

\* String.prototype.trim, with the space as the only whitespace character
RECURSIVE trim(_)
trim(s) ==
    IF s = <<>> THEN s
    ELSE IF s[1] = " " THEN trim(Tail(s))
    ELSE IF s[Len(s)] = " " THEN trim(SubSeq(s, 1, Len(s) - 1))
    ELSE s

cleanSlugNoLower(slug) ==
    trim([i \in 1..Len(StripEdgeSlashes(slug)) |->
            IF StripEdgeSlashes(slug)[i] = "/" THEN "_" ELSE StripEdgeSlashes(slug)[i]])

\* slug.toLowerCase().replace(/^\/|\/$/g, '').replace(/\//g, '_').trim()
cleanSlug(slug) ==
    LET lower == [i \in 1..Len(slug) |-> toLowerCase(slug[i])]
        stripped == StripEdgeSlashes(lower)
        under == [i \in 1..Len(stripped) |-> IF stripped[i] = "/" THEN "_" ELSE stripped[i]]
    IN  trim(under)

\* Response.ok
ResOk(status) == status >= 200 /\ status <= 299

\* JavaScript's !x on the values a configuration field takes
Falsy(x) == x = "undefined" \/ x = ""

(***************************************************************************)
(* The constructor.                                                        *)
(***************************************************************************)
NotTried == [present |-> FALSE, endpoint |-> "", cachedFilesURI |-> ""]
NoConfig == [present |-> FALSE, endpoint |-> "undefined", cachedFilesURI |-> "undefined"]

Configs ==
    {NoConfig}
    \cup [present : {TRUE},
          endpoint : {"undefined", "", "https://api.example.com"},
          cachedFilesURI : {"undefined", "", "static"}]

ConfigInvalidEndpointOnly(config) ==
    ~config.present \/ Falsy(config.endpoint)

\* !config || !config.endpoint || !config.cachedFilesURI
ConfigInvalid(config) ==
    ~config.present \/ Falsy(config.endpoint) \/ Falsy(config.cachedFilesURI)

Constructor(config) ==
    /\ client = NoClient
    /\ tried' = config
    /\ IF ConfigInvalid(config)
       THEN /\ thrown' = "TypeError"
            /\ UNCHANGED <<client, commentsHash>>
       ELSE /\ thrown' = "none"
            /\ client' = [endpoint |-> config.endpoint, cachedFilesURI |-> config.cachedFilesURI]
            /\ commentsHash' = EmptyHash
    /\ UNCHANGED <<heap, calls, order, last>>

(***************************************************************************)
(* Promises.  A call is the promise a method returned together with the    *)
(* request behind it.                                                      *)
(***************************************************************************)
NoValue == [t |-> "undefined"]

NewCall(op, method, url, body, slug) ==
    [op |-> op, method |-> method, url |-> url, body |-> body, slug |-> slug,
     requests |-> 1, phase |-> "fetching", status |-> 0, text |-> "",
     promise |-> "pending", value |-> NoValue, settleCalls |-> 0,
     netfail |-> FALSE, read |-> FALSE, ids |-> {}]

\* resolve(v) / reject(v) of a promise: only the first call settles it
Resolve(c, v) ==
    [c EXCEPT !.promise = IF c.promise = "pending" THEN "resolved" ELSE @,
              !.value = IF c.promise = "pending" THEN v ELSE @,
              !.settleCalls = @ + 1,
              !.phase = "done"]

Reject(c, v) ==
    [c EXCEPT !.promise = IF c.promise = "pending" THEN "rejected" ELSE @,
              !.value = IF c.promise = "pending" THEN v ELSE @,
              !.settleCalls = @ + 1,
              !.phase = "done"]

HasClient == client # NoClient
CanCall == HasClient /\ Len(calls) < MaxCalls

(***************************************************************************)
(* getJsonData and getComments.                                            *)
(***************************************************************************)

\* the records a cache file can hold, and the arrays of them
Comments == [id : Ids, parent_id : {Null} \cup Ids, submitted_at : Times]
Payloads == SeqsUpTo(Comments, MaxLen)

\* getCommentById: this.commentsHash[id]
getCommentById(id) ==
    IF id \in DOMAIN commentsHash
    THEN [found |-> TRUE, ref |-> commentsHash[id]]
    ELSE [found |-> FALSE, ref |-> <<0, 0>>]

comparefnSwapped(a, b) == IF a.submitted_at < b.submitted_at THEN 1 ELSE 0 - 1

\* the comparison function given to comments.sort
comparefn(a, b) == IF a.submitted_at < b.submitted_at THEN 0 - 1 ELSE 1

(***************************************************************************)
(* Array.prototype.sort.  comparefn never answers 0, so it is not a        *)
(* consistent comparator and the order of equal elements is left to the    *)
(* engine: an engine that asks "comparefn(x, e) < 0" keeps equal elements  *)
(* in input order, one that asks "comparefn(e, x) > 0" reverses them.      *)
(***************************************************************************)
SortModes == {"lt", "gt"}

ShiftsPast(e, x, mode) ==
    IF mode = "lt" THEN comparefn(x, e) < 0 ELSE comparefn(e, x) > 0

RECURSIVE Insert(_, _, _)
Insert(s, x, mode) ==
    IF s = <<>> THEN <<x>>
    ELSE IF ShiftsPast(s[Len(s)], x, mode)
         THEN Append(Insert(SubSeq(s, 1, Len(s) - 1), x, mode), s[Len(s)])
         ELSE Append(s, x)

RECURSIVE Sort(_, _)
Sort(s, mode) ==
    IF s = <<>> THEN <<>>
    ELSE Insert(Sort(SubSeq(s, 1, Len(s) - 1), mode), s[Len(s)], mode)

\* the objects res.json() creates for call k, in the order of the sorted array
Cell(k, i) == <<k, i>>
CellsOf(k, n) == [i \in 1..n |-> Cell(k, i)]

HashPutIfAbsent(h, id, cell) ==
    [x \in DOMAIN h \cup {id} |-> IF x \in DOMAIN h THEN h[x] ELSE cell]

\* this.commentsHash[id] = cell
HashPut(h, id, cell) ==
    [x \in DOMAIN h \cup {id} |-> IF x = id THEN cell ELSE h[x]]

\* first forEach: every comment gets children: [] and goes into the hash
RECURSIVE CreateHash(_, _, _, _)
CreateHash(h, sorted, k, i) ==
    IF i > Len(sorted) THEN h
    ELSE CreateHash(HashPut(h, sorted[i].id, Cell(k, i)), sorted, k, i + 1)

AllocComments(hp, sorted, k) ==
    [cell \in DOMAIN hp \cup {Cell(k, i) : i \in 1..Len(sorted)} |->
        IF cell \in DOMAIN hp
        THEN hp[cell]
        ELSE [id |-> sorted[cell[2]].id,
              parent_id |-> sorted[cell[2]].parent_id,
              submitted_at |-> sorted[cell[2]].submitted_at,
              children |-> <<>>]]

\* second forEach: push each comment onto its parent's children; reading
\* .children of a missing hash entry throws and ends the loop
RECURSIVE MoveChildren(_, _, _, _, _)
MoveChildren(st, h, sorted, k, i) ==
    IF i > Len(sorted) \/ st.threw THEN st
    ELSE IF sorted[i].parent_id = Null
         THEN MoveChildren(st, h, sorted, k, i + 1)
         ELSE IF sorted[i].parent_id \notin DOMAIN h
              THEN [st EXCEPT !.threw = TRUE]
              ELSE MoveChildren(
                     [st EXCEPT !.heap[h[sorted[i].parent_id]].children = Append(@, Cell(k, i))],
                     h, sorted, k, i + 1)

\* the reduce: the comments without a parent, in array order
RECURSIVE Roots(_, _, _)
Roots(sorted, k, i) ==
    IF i > Len(sorted) THEN <<>>
    ELSE IF sorted[i].parent_id = Null
         THEN <<Cell(k, i)>> \o Roots(sorted, k, i + 1)
         ELSE Roots(sorted, k, i + 1)

\* getComments(slug): one GET of the slug's cache file
GetComments(slug) ==
    /\ CanCall
    /\ calls' = Append(calls,
          NewCall("getComments", "GET",
                  client.endpoint \o "/" \o client.cachedFilesURI \o "/"
                      \o Join(cleanSlug(slug)) \o ".json",
                  <<>>, slug))
    /\ UNCHANGED <<client, tried, thrown, commentsHash, heap, order, last>>

\* fetch(url) rejects: the promise chain of getJsonData rejects with it
GetJsonFetchFails(k) ==
    /\ calls[k].op = "getComments" /\ calls[k].phase = "fetching"
    /\ calls' = [calls EXCEPT ![k] =
          Reject([@ EXCEPT !.netfail = TRUE], [t |-> "error", name |-> "TypeError: fetch"])]
    /\ UNCHANGED <<client, tried, thrown, commentsHash, heap, order, last>>

\* the then-callback of getJsonData
GetJsonResponse(k, status) ==
    /\ calls[k].op = "getComments" /\ calls[k].phase = "fetching"
    /\ calls' = [calls EXCEPT ![k] =
          IF ~ResOk(status)
          THEN Reject([@ EXCEPT !.status = status], [t |-> "error", name |-> "Error(status)"])
          ELSE [@ EXCEPT !.phase = "parsing"]]
    /\ UNCHANGED <<client, tried, thrown, commentsHash, heap, order, last>>

\* res.json() rejects on a body that is not JSON
JsonFails(k) ==
    /\ calls[k].op = "getComments" /\ calls[k].phase = "parsing"
    /\ calls' = [calls EXCEPT ![k] = Reject(@, [t |-> "error", name |-> "SyntaxError"])]
    /\ UNCHANGED <<client, tried, thrown, commentsHash, heap, order, last>>

\* the then-callback of getComments, run on the parsed array
TreeAssembly(k, input, mode) ==
    /\ calls[k].op = "getComments" /\ calls[k].phase = "parsing"
    /\ \E sorted \in {Sort(input, mode)} :
       \E hash1 \in {CreateHash(commentsHash, sorted, k, 1)} :
       \E st \in {MoveChildren([heap |-> AllocComments(heap, sorted, k), threw |-> FALSE],
                               hash1, sorted, k, 1)} :
          /\ commentsHash' = hash1
          /\ heap' = st.heap
          /\ calls' = [calls EXCEPT ![k] =
                IF st.threw
                THEN Reject([@ EXCEPT !.ids = {input[i].id : i \in 1..Len(input)}],
                            [t |-> "error", name |-> "TypeError"])
                ELSE Resolve([@ EXCEPT !.ids = {input[i].id : i \in 1..Len(input)}],
                             [t |-> "forest"])]
          /\ order' = Append(order, k)
          /\ last' = [call |-> k, input |-> input, sorted |-> CellsOf(k, Len(sorted)),
                      roots |-> IF st.threw THEN <<>> ELSE Roots(sorted, k, 1),
                      threw |-> st.threw]
    /\ UNCHANGED <<client, tried, thrown>>

Statuses == {200, 204, 404, 500}
PageSlugs == {<<"/", "A", "/">>}

Init ==
    /\ client = NoClient
    /\ tried = NotTried
    /\ thrown = "none"
    /\ commentsHash = EmptyHash
    /\ heap = EmptyHeap
    /\ calls = <<>>
    /\ order = <<>>
    /\ last = NoLast

Next ==
    \/ \E config \in Configs : Constructor(config)
    \/ \E slug \in PageSlugs : GetComments(slug)
    \/ \E k \in 1..Len(calls) : GetJsonFetchFails(k)
    \/ \E k \in 1..Len(calls), status \in Statuses : GetJsonResponse(k, status)
    \/ \E k \in 1..Len(calls) : JsonFails(k)
    \/ \E k \in 1..Len(calls), input \in Payloads, mode \in SortModes : TreeAssembly(k, input, mode)

Spec == Init /\ [][Next]_vars

(***************************************************************************)
(* ajax and the five mutating operations.                                  *)
(***************************************************************************)
Mutating == {"postComment", "updateComment", "deleteComment", "validateComment",
             "updateNewCommentsSubscription"}

ajaxThenNoReturn(c, status, text) ==
    IF ~ResOk(status)
    THEN [Resolve([c EXCEPT !.status = status, !.text = text], NoValue)
             EXCEPT !.phase = "reading"]
    ELSE Resolve([c EXCEPT !.status = status], NoValue)

\* the then-callback of ajax: res.text() is started on a failure status,
\* resolve() is called otherwise
ajaxThen(c, status, text) ==
    IF ~ResOk(status)
    THEN [c EXCEPT !.status = status, !.text = text, !.phase = "reading"]
    ELSE Resolve([c EXCEPT !.status = status], NoValue)

ajaxCatchRetry(c, err) ==
    [c EXCEPT !.requests = @ + 1, !.phase = "fetching"]

\* .catch(reject)
ajaxCatch(c, err) == Reject(c, err)

ajax(url, method, body, op) ==
    /\ CanCall
    /\ calls' = Append(calls, NewCall(op, method, url, body, <<>>))
    /\ UNCHANGED <<client, tried, thrown, commentsHash, heap, order, last>>

postComment ==
    ajax(client.endpoint \o "/comment/", "POST",
         <<"slug", "comment", "name", "email", "parent_id">>, "postComment")

updateComment(commentId) ==
    ajax(client.endpoint \o "/comment/" \o ToString(commentId), "PATCH",
         <<"comment", "user_secret">>, "updateComment")

deleteComment(commentId) ==
    ajax(client.endpoint \o "/comment/" \o ToString(commentId), "DELETE",
         <<"user_secret">>, "deleteComment")

validateComment(commentId) ==
    ajax(client.endpoint \o "/comment/validate/" \o ToString(commentId) \o "/", "POST",
         <<"user_secret">>, "validateComment")

updateNewCommentsSubscription(articleId) ==
    ajax(client.endpoint \o "/notification/article/" \o ToString(articleId) \o "/", "PATCH",
         <<"subscribe", "user_id", "user_secret">>, "updateNewCommentsSubscription")

\* fetch rejects (no connection, DNS failure): the catch handler runs
AjaxFetchFails(k) ==
    /\ calls[k].op \in Mutating /\ calls[k].phase = "fetching"
    /\ calls' = [calls EXCEPT ![k] =
          ajaxCatch([@ EXCEPT !.netfail = TRUE], [t |-> "error", name |-> "TypeError: fetch"])]
    /\ UNCHANGED <<client, tried, thrown, commentsHash, heap, order, last>>

\* fetch resolves with a response: the then-callback runs
AjaxResponse(k, status, text) ==
    /\ calls[k].op \in Mutating /\ calls[k].phase = "fetching"
    /\ calls' = [calls EXCEPT ![k] = ajaxThen(@, status, text)]
    /\ UNCHANGED <<client, tried, thrown, commentsHash, heap, order, last>>

\* res.text() resolves: msg => reject(msg)
AjaxTextRead(k) ==
    /\ calls[k].op \in Mutating /\ calls[k].phase = "reading"
    /\ calls' = [calls EXCEPT ![k] =
          Reject([@ EXCEPT !.read = TRUE], [t |-> "text", msg |-> calls[k].text])]
    /\ UNCHANGED <<client, tried, thrown, commentsHash, heap, order, last>>

\* res.text() rejects (the connection drops while the body is read): the
\* rejection runs down the chain to the catch handler
AjaxTextFails(k) ==
    /\ calls[k].op \in Mutating /\ calls[k].phase = "reading"
    /\ calls' = [calls EXCEPT ![k] =
          ajaxCatch(@, [t |-> "error", name |-> "TypeError: body"])]
    /\ UNCHANGED <<client, tried, thrown, commentsHash, heap, order, last>>

AjaxStatuses == {200, 299, 300, 404}
CommentIds == {7}       \* the commentId / articleId arguments
Texts == {"", "wrong secret"}

NextAjax ==
    \/ \E config \in Configs : Constructor(config)
    \/ postComment
    \/ \E commentId \in CommentIds : updateComment(commentId)
    \/ \E commentId \in CommentIds : deleteComment(commentId)
    \/ \E commentId \in CommentIds : validateComment(commentId)
    \/ \E articleId \in CommentIds : updateNewCommentsSubscription(articleId)
    \/ \E k \in 1..Len(calls) : AjaxFetchFails(k)
    \/ \E k \in 1..Len(calls), status \in AjaxStatuses, text \in Texts :
          AjaxResponse(k, status, text)
    \/ \E k \in 1..Len(calls) : AjaxTextRead(k)
    \/ \E k \in 1..Len(calls) : AjaxTextFails(k)

SpecAjax == Init /\ [][NextAjax]_vars

(***************************************************************************)
(* The request getComments issues, over many slugs.                        *)
(***************************************************************************)
SlugChars == {"A", "/", " "}
HelloWorld == <<"H", "e", "l", "l", "o", " ", "W", "o", "r", "l", "d">>
MyPostSub == <<"/", "M", "y", "-", "P", "o", "s", "t", "/", "S", "u", "b", "/">>
AlreadyClean == <<"A", "l", "r", "e", "a", "d", "y", "_", "C", "l", "e", "a", "n">>
Slugs == SeqsUpTo(SlugChars, MaxSlugLen) \cup {HelloWorld, MyPostSub, AlreadyClean}

NextUrl ==
    \/ \E config \in Configs : Constructor(config)
    \/ \E slug \in Slugs : GetComments(slug)

SpecUrl == Init /\ [][NextUrl]_vars

(***************************************************************************)
(* Vocabulary of the properties.                                           *)
(***************************************************************************)
Range(f) == {f[x] : x \in DOMAIN f}
Occurrences(seq, x) == Cardinality({i \in 1..Len(seq) : seq[i] = x})
IdsOf(input) == {input[i].id : i \in 1..Len(input)}

\* the cells that can be reached from a set of cells through children lists
RECURSIVE ReachableFrom(_)
ReachableFrom(cells) ==
    LET more == cells \cup UNION {Range(heap[c].children) : c \in cells}
    IN  IF more = cells THEN cells ELSE ReachableFrom(more)

\* the returned forest: everything under the roots of the latest call
Forest == ReachableFrom(Range(last.roots))

\* in how many places of the forest a cell stands
Places(cell) ==
    Occurrences(last.roots, cell)
    + Cardinality({<<c, i>> \in Forest \X (1..MaxLen * MaxCalls) :
                      i <= Len(heap[c].children) /\ heap[c].children[i] = cell})

SortedByTime(cells) ==
    \A i, j \in 1..Len(cells) :
        i < j => heap[cells[i]].submitted_at <= heap[cells[j]].submitted_at

\* a parent_id that names no comment of the same fetched array
Dangling(input) ==
    \E i \in 1..Len(input) :
        input[i].parent_id # Null /\ input[i].parent_id \notin IdsOf(input)

LastResolved == last.call # 0 /\ calls[last.call].promise = "resolved"
GetCalls == {k \in 1..Len(calls) : calls[k].op = "getComments"}
MutatingCalls == {k \in 1..Len(calls) : calls[k].op \in Mutating}

(***************************************************************************)
(* C1: after a getComments call has resolved, the index holds exactly the  *)
(* ids of the set that call fetched (replaced, not merged).                *)
(***************************************************************************)
C1_IndexReplaced ==
    LastResolved =>
        \A id \in Ids : getCommentById(id).found <=> id \in calls[last.call].ids

(***************************************************************************)
(* C2: when getComments resolves, every fetched id is in the index and     *)
(* every fetched comment stands in exactly one place of the returned       *)
(* forest: as a root, or in the children of one comment under a root.      *)
(***************************************************************************)
C2_OnePlaceInForest ==
    LastResolved =>
        /\ \A id \in IdsOf(last.input) : getCommentById(id).found
        /\ \A i \in 1..Len(last.sorted) : Places(last.sorted[i]) = 1

(***************************************************************************)
(* C3: when getComments resolves, the roots and every children list of    *)
(* the result are in ascending submitted_at order.                         *)
(***************************************************************************)
C3_SiblingsChronological ==
    LastResolved =>
        /\ SortedByTime(last.roots)
        /\ \A i \in 1..Len(last.sorted) : SortedByTime(heap[last.sorted[i]].children)

C3_Witness ==
    /\ LastResolved
    /\ Len(last.roots) >= 2
    /\ last.input[1].submitted_at > last.input[2].submitted_at

(***************************************************************************)
(* C4: a getComments call whose fetched set has a comment with a parent_id *)
(* that matches no id of that set rejects, whatever the index held before. *)
(***************************************************************************)
C4_DanglingParentRejects ==
    (last.call # 0 /\ Dangling(last.input)) =>
        /\ last.threw
        /\ calls[last.call].promise = "rejected"

(***************************************************************************)
(* C5: a mutating operation whose transport fails at network level has    *)
(* issued exactly one request, and its promise is rejected, once, and      *)
(* never resolved.                                                         *)
(***************************************************************************)
C5_NetworkFailureRejectsOnce ==
    \A k \in MutatingCalls :
        calls[k].netfail =>
            /\ calls[k].requests = 1
            /\ calls[k].promise = "rejected"
            /\ calls[k].settleCalls = 1

C5_Witness ==
    \E k \in MutatingCalls :
        calls[k].op = "postComment" /\ calls[k].netfail /\ calls[k].promise = "rejected"

(***************************************************************************)
(* C6: once a response has been delivered to a mutating operation, its    *)
(* promise resolves with no payload exactly when the status is 2xx;        *)
(* otherwise it stays pending only while the body is being read and, the   *)
(* body read, is rejected with the body text.  resolve/reject is called    *)
(* once.                                                                   *)
(***************************************************************************)
C6_SettlesByStatus ==
    \A k \in MutatingCalls :
        calls[k].status # 0 =>
            /\ calls[k].settleCalls <= 1
            /\ calls[k].phase = "done" => calls[k].settleCalls = 1
            /\ calls[k].promise = "resolved" <=> calls[k].status \in 200..299
            /\ calls[k].promise = "resolved" => calls[k].value = NoValue
            /\ calls[k].promise = "pending" => calls[k].phase = "reading" /\ ~calls[k].read
            /\ calls[k].read =>
                  /\ calls[k].promise = "rejected"
                  /\ calls[k].value = [t |-> "text", msg |-> calls[k].text]

C6_Witness ==
    \E k \in MutatingCalls :
        /\ calls[k].status = 404 /\ calls[k].read
        /\ calls[k].promise = "rejected"
        /\ calls[k].value = [t |-> "text", msg |-> "wrong secret"]

(***************************************************************************)
(* C7: when two getComments calls both succeed, every id present in both   *)
(* fetched sets is looked up to the record of the call whose then-callback *)
(* ran later (as long as no later callback stored that id again), whatever *)
(* the order in which the calls were issued.                               *)
(***************************************************************************)
C7_LaterCompletionWins ==
    \A i, j \in 1..Len(order) :
        (/\ i < j
         /\ calls[order[i]].promise = "resolved"
         /\ calls[order[j]].promise = "resolved") =>
            \A id \in calls[order[i]].ids \cap calls[order[j]].ids :
                (\A m \in 1..Len(order) : m > j => id \notin calls[order[m]].ids) =>
                    /\ getCommentById(id).found
                    /\ getCommentById(id).ref[1] = order[j]
                    /\ heap[getCommentById(id).ref].id = id

C7_Witness ==
    /\ order = <<2, 1>>
    /\ calls[1].promise = "resolved" /\ calls[2].promise = "resolved"
    /\ 1 \in calls[1].ids \cap calls[2].ids
    /\ getCommentById(1).ref[1] = 1

(***************************************************************************)
(* C8: getComments("Hello World") on the client of endpoint                *)
(* https://api.example.com and cachedFilesURI static issues its one GET to *)
(* https://api.example.com/static/hello_world.json.                        *)
(***************************************************************************)
ExampleClient ==
    client = [endpoint |-> "https://api.example.com", cachedFilesURI |-> "static"]

C8_HelloWorldUnderscore ==
    \A k \in GetCalls :
        (ExampleClient /\ calls[k].slug = HelloWorld) =>
            /\ calls[k].requests = 1 /\ calls[k].method = "GET"
            /\ calls[k].url = "https://api.example.com/static/hello_world.json"

(***************************************************************************)
(* C8 as amended: the request goes to {endpoint}/{cachedFilesURI}/         *)
(* {cleanSlug(slug)}.json, where cleanSlug lower-cases, drops one leading  *)
(* and one trailing slash, turns the other slashes into underscores and    *)
(* trims; spaces inside the slug stay, so "Hello World" is fetched from    *)
(* https://api.example.com/static/hello world.json.                        *)
(***************************************************************************)
ExpectedFile(slug) ==
    CASE slug = HelloWorld -> "hello world"
      [] slug = MyPostSub -> "my-post_sub"
      [] slug = AlreadyClean -> "already_clean"
      [] slug = <<"/", "A">> -> "a"
      [] slug = <<"A", "/">> -> "a"
      [] slug = <<"/", "/">> -> ""
      [] slug = <<" ", "/">> -> ""
      [] slug = <<"/", " ">> -> ""
      [] slug = <<"A", " ">> -> "a"
      [] slug = <<"A", "A">> -> "aa"

ExpectedSlugs ==
    {HelloWorld, MyPostSub, AlreadyClean, <<"/", "A">>, <<"A", "/">>, <<"/", "/">>,
     <<" ", "/">>, <<"/", " ">>, <<"A", " ">>, <<"A", "A">>}

C8_RequestTarget ==
    \A k \in GetCalls :
        /\ calls[k].requests = 1 /\ calls[k].method = "GET"
        /\ (ExampleClient /\ calls[k].slug \in ExpectedSlugs) =>
              calls[k].url = "https://api.example.com/static/"
                                \o ExpectedFile(calls[k].slug) \o ".json"

C8_Witness ==
    \E k \in GetCalls :
        /\ ExampleClient /\ calls[k].slug = HelloWorld
        /\ calls[k].url = "https://api.example.com/static/hello world.json"

(***************************************************************************)
(* C9: a constructor call with no configuration, or with endpoint or       *)
(* cachedFilesURI missing or empty, throws a TypeError and leaves no       *)
(* client; with both fields given it stores them unchanged, and the new    *)
(* client's index is empty.                                                *)
(***************************************************************************)
MissingOrEmpty(field) == field \in {"undefined", ""}

C9_ConstructionValidated ==
    /\ (/\ tried # NotTried
        /\ \/ ~tried.present
           \/ MissingOrEmpty(tried.endpoint)
           \/ MissingOrEmpty(tried.cachedFilesURI)) =>
          thrown = "TypeError" /\ client = NoClient
    /\ (/\ tried.present
        /\ ~MissingOrEmpty(tried.endpoint)
        /\ ~MissingOrEmpty(tried.cachedFilesURI)) =>
          /\ thrown = "none"
          /\ client.endpoint = tried.endpoint
          /\ client.cachedFilesURI = tried.cachedFilesURI
          /\ order = <<>> => \A id \in Ids : ~getCommentById(id).found

C9_Witness ==
    /\ tried.present /\ tried.endpoint = "https://api.example.com"
    /\ tried.cachedFilesURI = ""
    /\ thrown = "TypeError" /\ client = NoClient

(***************************************************************************)
(* C10: a getComments call that rejects leaves the index as it was:        *)
(* getCommentById answers the same for every id before and after.          *)
(***************************************************************************)
C10_RejectionKeepsIndex ==
    [][\A k \in GetCalls :
          (calls[k].promise = "pending" /\ calls'[k].promise = "rejected") =>
              \A id \in Ids : getCommentById(id)' = getCommentById(id)]_vars
====
